---- MODULE Spec2Model ----
(***************************************************************************)
(* yaf: the template renderer of src/src/main.rs (specification Spec) and *)
(* the fact providers of src/src/fetch.rs (specification FetchSpec).       *)
(*                                                                         *)
(* A Rust string is modelled as a sequence of characters, a character as   *)
(* a one-character TLA+ string.  Two characters have longer names: "ESC"   *)
(* is the byte 0x1B and "U+FFFD" is the Unicode replacement character; a   *)
(* byte that is no valid UTF-8 is written "0xFF".                          *)
(***************************************************************************)
EXTENDS Integers, Sequences, FiniteSets, TLC

VARIABLES
    args,           \* main: `args`, the switches of the command line
    config,         \* main: the template text (file contents or BUILTIN_CONFIG)
    env,            \* the process environment: name -> value
    sys,            \* what the operating system answers the fact providers
    lines,          \* main: config.lines()
    index,          \* main: the enumerate() index of the line being rendered
    mainOutput,     \* main: `output`, the rendered lines accumulated so far
    stdout,         \* the characters written to the output stream
    errlog,         \* what error!() logged: <<[line, kind, arg]>>
    exitStatus,     \* -1 while running, then the process's exit status
    pc,             \* "args" (main entered), "loop", "parse", "done" (main returned
                    \* after rendering), "returned" (main returned at a switch),
                    \* "exited" (process::exit)
    pos,            \* parse_line: 1-based position of the next character of `line`
    buffer,         \* parse_line: `buffer`
    output,         \* parse_line: `output`
    inside_braces,  \* parse_line: `inside_braces`
    escape_next,    \* parse_line: `escape_next`
    rets,           \* the values parse_line returned, one per call, in order
    calls,          \* the resolver calls made, in order:
                    \* <<[body, fn, arg, line, ret, proc]>>
    provider,       \* fetch.rs: the provider called on its own, "none" under main
    fpc,            \* the provider's position: "idle", "call", "nix" (get_pkgs is in
                    \* its nix_count block), "returned", "panicked"
    fret,           \* the String the provider returned
    system_handle,  \* get_pkgs: `system_handle`, the first nix-store thread
    user_handle,    \* get_pkgs: `user_handle`, the second nix-store thread
    joined          \* get_pkgs: the values join() has returned so far, in order

vars == <<args, config, env, sys, lines, index, mainOutput, stdout, errlog, exitStatus,
          pc, pos, buffer, output, inside_braces, escape_next, rets, calls,
          provider, fpc, fret, system_handle, user_handle, joined>>

mainVars == <<index, mainOutput, stdout, errlog, exitStatus>>
fetchVars == <<provider, fpc, fret, system_handle, user_handle, joined>>
worldVars == <<args, config, env, sys, lines, fetchVars>>
rendererVars == <<args, config, lines, mainVars, pc, pos, buffer, output, inside_braces,
                  escape_next, rets, calls>>

-----------------------------------------------------------------------------
(* Bounds of the model *)

\* most days of uptime
MaxDays == 2
\* a directory holds up to MaxCount * DirStep entries, nix-store prints up to
\* MaxCount lines
MaxCount == 1
DirStep == 12

\* longest template text enumerated character by character
MaxLen == 4
\* longest suffix enumerated after "{@color"
MaxSuffix == 3
\* most lines of a template assembled from the sample lines
MaxLines == 2

-----------------------------------------------------------------------------
(* Strings *)

AllStrs(A, n) == UNION {[1..k -> A] : k \in 0..n}

Last(s) == s[Len(s)]

StartsWith(s, p) == Len(s) >= Len(p) /\ SubSeq(s, 1, Len(p)) = p

\* &s[n..]
From(s, n) == SubSeq(s, n + 1, Len(s))

\* char::is_whitespace, on the characters of the model
IsWhitespace(c) == c \in {" ", "\n", "\t", "\r"}

RECURSIVE TrimEnd(_)
TrimEnd(s) ==
    IF s # <<>> /\ IsWhitespace(Last(s)) THEN TrimEnd(SubSeq(s, 1, Len(s) - 1)) ELSE s

RECURSIVE TrimStart(_)
TrimStart(s) ==
    IF s # <<>> /\ IsWhitespace(Head(s)) THEN TrimStart(Tail(s)) ELSE s

Trim(s) == TrimEnd(TrimStart(s))

\* str::replace: every non-overlapping occurrence of `from`, left to right
RECURSIVE Replace(_, _, _)
Replace(s, from, to) ==
    IF s = <<>> THEN <<>>
    ELSE IF StartsWith(s, from) THEN to \o Replace(From(s, Len(from)), from, to)
    ELSE <<Head(s)>> \o Replace(Tail(s), from, to)

\* String::from_utf8_lossy: an invalid byte becomes U+FFFD
FromUtf8Lossy(bytes) ==
    [i \in 1..Len(bytes) |-> IF bytes[i] = "0xFF" THEN "U+FFFD" ELSE bytes[i]]

\* str::lines: split at "\n", a line's trailing "\r" goes with its "\n",
\* no empty last line after a final "\n"
StripCR(s) == IF s # <<>> /\ Last(s) = "\r" THEN SubSeq(s, 1, Len(s) - 1) ELSE s

\* the lines of s from position `from` on, one recursion step per line
RECURSIVE SplitLines(_, _)
SplitLines(s, from) ==
    IF from > Len(s) THEN <<>>
    ELSE IF \E i \in from..Len(s) : s[i] = "\n" THEN
        LET n == CHOOSE i \in from..Len(s) :
                    s[i] = "\n" /\ \A j \in from..(i - 1) : s[j] # "\n"
        IN  <<StripCR(SubSeq(s, from, n - 1))>> \o SplitLines(s, n + 1)
    ELSE <<SubSeq(s, from, Len(s))>>

Lines(s) == SplitLines(s, 1)

RECURSIVE Concat(_)
Concat(ss) == IF ss = <<>> THEN <<>> ELSE Head(ss) \o Concat(Tail(ss))

-----------------------------------------------------------------------------
(* Results: Result<String, MyError> *)

Ok(v) == [ok |-> TRUE, val |-> v, kind |-> "", arg |-> <<>>]
Err(k, a) == [ok |-> FALSE, val |-> <<>>, kind |-> k, arg |-> a]

-----------------------------------------------------------------------------
(* String literals of the source *)

S_color == <<"c", "o", "l", "o", "r">>
S_bold == <<"b", "o", "l", "d">>
S_italic == <<"i", "t", "a", "l", "i", "c">>
S_underline == <<"u", "n", "d", "e", "r", "l", "i", "n", "e">>
S_reset == <<"r", "e", "s", "e", "t">>
S_username == <<"u", "s", "e", "r", "n", "a", "m", "e">>
S_hostname == <<"h", "o", "s", "t", "n", "a", "m", "e">>
S_distro == <<"d", "i", "s", "t", "r", "o">>
S_kernel == <<"k", "e", "r", "n", "e", "l">>
S_uptime == <<"u", "p", "t", "i", "m", "e">>
S_pkgs == <<"p", "k", "g", "s">>
S_shell == <<"s", "h", "e", "l", "l">>
S_unknown == <<"u", "n", "k", "n", "o", "w", "n">>
S_braces == <<"{", "}">>
ESC_color == <<"ESC", "[", "3", "8", ";", "5", ";", "{", "}", "m">>
ESC_bold == <<"ESC", "[", "1", "m">>
ESC_italic == <<"ESC", "[", "3", "m">>
ESC_underline == <<"ESC", "[", "4", "m">>
ESC_reset == <<"ESC", "[", "0", "m">>
S_echo_hi == <<"e", "c", "h", "o", " ", "h", "i">>
S_hi_nl == <<"h", "i", "\n">>
S_hash_echo_hi == <<"#">> \o S_echo_hi

\* static BUILTIN_VARS
BUILTIN_VARS ==
    [k \in {S_color, S_bold, S_italic, S_underline, S_reset, S_username, S_hostname} |->
        CASE k = S_color -> ESC_color
          [] k = S_bold -> ESC_bold
          [] k = S_italic -> ESC_italic
          [] k = S_underline -> ESC_underline
          [] k = S_reset -> ESC_reset
          [] k = S_username -> S_unknown
          [] k = S_hostname -> S_unknown]

\* const BUILTIN_CONFIG, the text of yaf.conf
BUILTIN_CONFIG ==
    <<"{", "@", "b", "o", "l", "d", "}", "{", "@", "u", "s", "e", "r", "n", "a", "m", "e", "}",
      "{", "@", "r", "e", "s", "e", "t", "}", "\n">>

\* what `--version` prints; CARGO_PKG_VERSION and GIT_COMMIT_HASH are one
\* character each
S_version ==
    <<"y", "a", "f", " ", "CARGO_PKG_VERSION", " ", "(", "GIT_COMMIT_HASH", ")", "\n">>

\* crate::NOT_AVAILABLE_STR, which fetch.rs imports
NOT_AVAILABLE_STR == <<"N", "/", "A">>

-----------------------------------------------------------------------------
(* u8: suffix.parse::<u8>() and color.to_string() *)

Digits == <<"0", "1", "2", "3", "4", "5", "6", "7", "8", "9">>

IsDigit(c) == \E d \in 1..10 : Digits[d] = c

DigitVal(c) == (CHOOSE d \in 1..10 : Digits[d] = c) - 1

\* u8::MAX
U8Max == 255

\* the digits of <u8 as FromStr>::from_str, most significant first; -1 is an
\* Err (InvalidDigit or PosOverflow)
RECURSIVE ParseDigits(_, _)
ParseDigits(s, acc) ==
    IF s = <<>> THEN acc
    ELSE IF ~IsDigit(Head(s)) THEN -1
    ELSE IF acc * 10 + DigitVal(Head(s)) > U8Max THEN -1
    ELSE ParseDigits(Tail(s), acc * 10 + DigitVal(Head(s)))

\* <u8 as FromStr>::from_str: an optional "+", then one or more decimal
\* digits; a negative result is an Err
ParseU8(s) ==
    IF s = <<>> THEN -1
    ELSE IF s = <<"+">> \/ s = <<"-">> THEN -1
    ELSE IF Head(s) = "+" THEN ParseDigits(Tail(s), 0)
    ELSE ParseDigits(s, 0)

\* u8::to_string
RECURSIVE U8ToString(_)
U8ToString(n) ==
    IF n < 10 THEN <<Digits[n + 1]>>
    ELSE Append(U8ToString(n \div 10), Digits[(n % 10) + 1])

-----------------------------------------------------------------------------
(* The fact providers of fetch.rs that replace_builtin_var calls.  `sys`   *)
(* holds what the operating system answers: each field is an Ok or an Err. *)

\* str::split_whitespace
RECURSIVE SplitWs(_, _)
SplitWs(s, cur) ==
    IF s = <<>> THEN (IF cur = <<>> THEN <<>> ELSE <<cur>>)
    ELSE IF IsWhitespace(Head(s)) THEN
        (IF cur = <<>> THEN <<>> ELSE <<cur>>) \o SplitWs(Tail(s), <<>>)
    ELSE SplitWs(Tail(s), Append(cur, Head(s)))

SplitWhitespace(s) == SplitWs(s, <<>>)

get_username == IF sys.username.ok THEN sys.username.val ELSE NOT_AVAILABLE_STR

get_hostname == IF sys.hostname.ok THEN sys.hostname.val ELSE NOT_AVAILABLE_STR

get_distro == IF sys.distro.ok THEN sys.distro.val ELSE NOT_AVAILABLE_STR

get_kernel ==
    IF sys.procVersion.ok THEN
        LET contents == sys.procVersion.val
            parts == SplitWhitespace(contents)
        IN  IF Len(parts) > 2 THEN parts[3] ELSE contents
    ELSE NOT_AVAILABLE_STR

-----------------------------------------------------------------------------
(* The resolvers of main.rs *)

\* env::var(key): Err when the variable is unset or its value is no Unicode
EnvVar(key) ==
    IF key \in DOMAIN env /\ \A i \in 1..Len(env[key]) : env[key][i] # "0xFF"
    THEN Ok(env[key])
    ELSE Err("NotPresentOrNotUnicode", <<>>)

get_env(key) ==
    LET r == EnvVar(key) IN IF r.ok THEN r ELSE Err("EnvVariable", key)

\* the color arm parsing the suffix as it stands, not trimmed
ColorArm_NoTrim(key) ==
    LET suffix == From(key, Len(S_color))
        color == ParseU8(suffix)
    IN  IF color >= 0 /\ S_color \in DOMAIN BUILTIN_VARS
        THEN Ok(Replace(BUILTIN_VARS[S_color], S_braces, U8ToString(color)))
        ELSE Err("UnknownColor", suffix)

\* the `_ if key.starts_with("color")` arm
ColorArm(key) ==
    LET suffix == Trim(From(key, Len(S_color)))
        color == ParseU8(suffix)
    IN  IF color >= 0 /\ S_color \in DOMAIN BUILTIN_VARS
        THEN Ok(Replace(BUILTIN_VARS[S_color], S_braces, U8ToString(color)))
        ELSE Err("UnknownColor", suffix)

\* the `_ =>` arm
StyleArm(key) ==
    IF key \in DOMAIN BUILTIN_VARS THEN Ok(BUILTIN_VARS[key]) ELSE Err("UnknownStyle", key)

replace_builtin_var(key) ==
    CASE key = S_username -> Ok(get_username)
      [] key = S_hostname -> Ok(get_hostname)
      [] key = S_distro -> Ok(get_distro)
      [] key = S_kernel -> Ok(get_kernel)
      [] OTHER -> IF StartsWith(key, S_color) THEN ColorArm(key) ELSE StyleArm(key)

\* What Command::new("/bin/sh").arg("-c").arg(command).output() can return:
\* an io::Error (spawned = FALSE) or the bytes the child wrote.
Proc(o, e) == [spawned |-> TRUE, stdout |-> o, stderr |-> e]
SpawnFailed == [spawned |-> FALSE, stdout |-> <<>>, stderr |-> <<>>]
\* the `proc` of a resolver call that runs no child process
NoProc == SpawnFailed

\* the outputs a command of unknown meaning may have
SomeStdout == {<<>>, <<"o", "\n">>, <<" ", "o", " ">>, <<"0xFF">>}
SomeStderr == {<<>>, <<"e", "\n">>, <<"\n">>}

\* sh -c command: a command that is blank or a "#" comment writes nothing,
\* "echo hi" writes "hi\n"; any other command may write anything
ShOutputs(command) ==
    LET c == TrimStart(command)
    IN  {SpawnFailed} \cup
        (IF c = <<>> \/ Head(c) = "#" THEN {Proc(<<>>, <<>>)}
         ELSE IF command = S_echo_hi THEN {Proc(S_hi_nl, <<>>)}
         ELSE {Proc(o, e) : o \in SomeStdout, e \in SomeStderr})

\* run_sh testing the untrimmed stderr
run_sh_RawStderr(proc) ==
    IF ~proc.spawned THEN Err("FileRead", <<>>)
    ELSE LET out == TrimEnd(FromUtf8Lossy(proc.stdout))
             err == FromUtf8Lossy(proc.stderr)
         IN  IF err # <<>> THEN Err("CommandExecution", TrimEnd(err)) ELSE Ok(out)

\* run_sh, given what the child process did
run_sh(proc) ==
    IF ~proc.spawned THEN Err("FileRead", <<>>)
    ELSE LET out == TrimEnd(FromUtf8Lossy(proc.stdout))
             err == TrimEnd(FromUtf8Lossy(proc.stderr))
         IN  IF err # <<>> THEN Err("CommandExecution", err) ELSE Ok(out)

\* the dispatch with a sigil cut off the shell command as well
Resolve_CutsFirstChar(body) ==
    IF StartsWith(body, <<"$">>) THEN
        {[fn |-> "get_env", arg |-> From(body, 1), ret |-> get_env(From(body, 1)),
          proc |-> NoProc]}
    ELSE IF StartsWith(body, <<"@">>) THEN
        {[fn |-> "replace_builtin_var", arg |-> From(body, 1),
          ret |-> replace_builtin_var(From(body, 1)), proc |-> NoProc]}
    ELSE
        {[fn |-> "run_sh", arg |-> From(body, 1), ret |-> run_sh(p), proc |-> p] :
            p \in ShOutputs(From(body, 1))}

\* the dispatch refusing an empty body as an unknown name
Resolve_EmptyIsUnknown(body) ==
    IF body = <<>> THEN
        {[fn |-> "none", arg |-> body, ret |-> Err("UnknownStyle", body), proc |-> NoProc]}
    ELSE IF StartsWith(body, <<"$">>) THEN
        {[fn |-> "get_env", arg |-> From(body, 1), ret |-> get_env(From(body, 1)),
          proc |-> NoProc]}
    ELSE IF StartsWith(body, <<"@">>) THEN
        {[fn |-> "replace_builtin_var", arg |-> From(body, 1),
          ret |-> replace_builtin_var(From(body, 1)), proc |-> NoProc]}
    ELSE
        {[fn |-> "run_sh", arg |-> body, ret |-> run_sh(p), proc |-> p] :
            p \in ShOutputs(body)}

\* the dispatch of parse_line on the placeholder body: the resolver calls it
\* can make, each with what it returns
Resolve(body) ==
    IF StartsWith(body, <<"$">>) THEN
        {[fn |-> "get_env", arg |-> From(body, 1), ret |-> get_env(From(body, 1)),
          proc |-> NoProc]}
    ELSE IF StartsWith(body, <<"@">>) THEN
        {[fn |-> "replace_builtin_var", arg |-> From(body, 1),
          ret |-> replace_builtin_var(From(body, 1)), proc |-> NoProc]}
    ELSE
        {[fn |-> "run_sh", arg |-> body, ret |-> run_sh(p), proc |-> p] :
            p \in ShOutputs(body)}

-----------------------------------------------------------------------------
(* The inputs of a run *)

\* the characters of the templates enumerated in full
Alphabet == {"{", "}", "\\", "$", "@", "a", "\n"}

\* the characters of the suffixes enumerated after "{@color"
SuffixChars == {"0", "2", "5", "6", "+", "-", " ", "x"}

ColorLine(suffix) == <<"{", "@">> \o S_color \o suffix \o <<"}">>

\* template lines that use the names and commands the source knows
SampleLines ==
    <<<<"{", "@", "u", "s", "e", "r", "n", "a", "m", "e", "}", "@", "{", "@", "h",
      "o", "s", "t", "n", "a", "m", "e", "}", " ", "{", "@", "d", "i", "s", "t", "r",
      "o", "}", " ", "{", "@", "k", "e", "r", "n", "e", "l", "}">>,
     <<"{", "@", "u", "p", "t", "i", "m", "e", "}">>,
     <<"{", "@", "p", "k", "g", "s", "}">>,
     <<"{", "@", "s", "h", "e", "l", "l", "}">>,
     <<"{", "@", "b", "o", "l", "d", "}", "{", "@", "i", "t", "a", "l", "i", "c",
      "}", "{", "@", "u", "n", "d", "e", "r", "l", "i", "n", "e", "}", "x", "{", "@",
      "r", "e", "s", "e", "t", "}">>,
     <<"{", "#", "e", "c", "h", "o", " ", "h", "i", "}">>,
     <<"{", "e", "c", "h", "o", " ", "h", "i", "}">>,
     <<"p", "r", "e", "\\", "{", "@", "r", "e", "s", "e", "t", "}", "p", "o", "s",
      "t">>,
     <<"{", "{", "}", "}">>,
     <<"{", "$", "a", "}", "{", "$", "a", "}">>,
     <<"{", "$", "b", "}", "}">>,
     <<"{", "@", "U", "s", "e", "r", "n", "a", "m", "e", "}">>,
     <<"a", "\r">>,
     <<"{", "#", "\\", "}", "}", ".", "{", "@", "r", "e", "s", "e", "t", "}">>>>

RECURSIVE JoinLines(_)
JoinLines(ls) ==
    IF ls = <<>> THEN <<>> ELSE Head(ls) \o <<"\n">> \o JoinLines(Tail(ls))

SampleConfigs ==
    {JoinLines([i \in 1..Len(f) |-> SampleLines[f[i]]]) :
        f \in UNION {[1..k -> 1..Len(SampleLines)] : k \in 1..MaxLines}}

\* environments: `a` set, nothing set, `a` set to bytes that are no Unicode
EnvSet == (<<"a">> :> <<" ", "v", " ">>)
EnvEmpty == [n \in {} |-> <<>>]
EnvNotUnicode == (<<"a">> :> <<"0xFF">>)

\* operating systems: every query answered, every query failing, and a
\* /proc/version of fewer than three words
SysOk ==
    [username |-> Ok(<<"a", "l">>), hostname |-> Ok(<<"p", "c">>),
     distro |-> Ok(<<"A", "r", "c", "h">>),
     procVersion |-> Ok(<<"L", " ", "v", " ", "6", ".", "1", " ", "(", "x", ")", "\n">>)]
SysFail ==
    [username |-> Err("io", <<>>), hostname |-> Err("io", <<>>),
     distro |-> Err("io", <<>>), procVersion |-> Err("io", <<>>)]
SysShort == [SysOk EXCEPT !.procVersion = Ok(<<"6", ".", "1", "\n">>)]

Worlds ==
    {[config |-> c, env |-> EnvSet, sys |-> SysOk] : c \in AllStrs(Alphabet, MaxLen)}
    \cup {[config |-> c, env |-> e, sys |-> SysOk] :
        c \in {x \in AllStrs(Alphabet, MaxLen) : \E i \in 1..Len(x) : x[i] = "$"},
        e \in {EnvEmpty, EnvNotUnicode}}
    \cup {[config |-> ColorLine(x), env |-> EnvEmpty, sys |-> SysOk] :
        x \in AllStrs(SuffixChars, MaxSuffix)}
    \cup {[config |-> c, env |-> w[1], sys |-> w[2]] :
        c \in SampleConfigs,
        w \in {<<EnvSet, SysOk>>, <<EnvEmpty, SysFail>>, <<EnvNotUnicode, SysShort>>}}

-----------------------------------------------------------------------------
(* main and parse_line *)

\* a JoinHandle: the thread is not spawned, runs, or has finished with a value
NotSpawned == [state |-> "none", value |-> 0]
Running == [state |-> "running", value |-> 0]
Finished(v) == [state |-> "finished", value |-> v]

\* struct Args: no switch given, or at least one of the two
ArgsNone == [dump_config |-> FALSE, version |-> FALSE]
ArgsSwitches == [dump_config : BOOLEAN, version : BOOLEAN] \ {ArgsNone}

Init ==
    /\ \/ \E w \in Worlds :
            /\ args = ArgsNone
            /\ config = w.config
            /\ env = w.env
            /\ sys = w.sys
            /\ lines = Lines(w.config)
       \/ /\ args \in ArgsSwitches
          /\ config = BUILTIN_CONFIG
          /\ env = EnvEmpty
          /\ sys = SysOk
          /\ lines = Lines(BUILTIN_CONFIG)
    /\ index = 0
    /\ mainOutput = <<>>
    /\ stdout = <<>>
    /\ errlog = <<>>
    /\ exitStatus = -1
    /\ pc = "args"
    /\ pos = 1
    /\ buffer = <<>>
    /\ output = <<>>
    /\ inside_braces = FALSE
    /\ escape_next = FALSE
    /\ rets = <<>>
    /\ calls = <<>>
    /\ provider = "none"
    /\ fpc = "idle"
    /\ fret = <<>>
    /\ system_handle = NotSpawned
    /\ user_handle = NotSpawned
    /\ joined = <<>>

\* the line parse_line is rendering, and the character its loop reads next
line == lines[index + 1]
AtChar == pc = "parse" /\ pos <= Len(line)
char == line[pos]

\* main, `if args.dump_config { print!(BUILTIN_CONFIG); return; }`
DumpConfig ==
    /\ pc = "args"
    /\ args.dump_config
    /\ stdout' = stdout \o BUILTIN_CONFIG
    /\ exitStatus' = 0
    /\ pc' = "returned"
    /\ UNCHANGED <<worldVars, index, mainOutput, errlog, pos, buffer, output,
                   inside_braces, escape_next, rets, calls>>

\* main, `if args.version { print!("yaf {} ({})\n", ..); return; }`
PrintVersion ==
    /\ pc = "args"
    /\ ~args.dump_config
    /\ args.version
    /\ stdout' = stdout \o S_version
    /\ exitStatus' = 0
    /\ pc' = "returned"
    /\ UNCHANGED <<worldVars, index, mainOutput, errlog, pos, buffer, output,
                   inside_braces, escape_next, rets, calls>>

\* main with no switch: the config is read and the loop over its lines begins
LoadConfig ==
    /\ pc = "args"
    /\ ~args.dump_config
    /\ ~args.version
    /\ pc' = "loop"
    /\ UNCHANGED <<worldVars, mainVars, pos, buffer, output, inside_braces,
                   escape_next, rets, calls>>

\* main, `for (index, line) in config.lines().enumerate()`: call parse_line,
\* which starts with empty buffers and both flags false
CallParseLine ==
    /\ pc = "loop"
    /\ index < Len(lines)
    /\ pc' = "parse"
    /\ pos' = 1
    /\ buffer' = <<>>
    /\ output' = <<>>
    /\ inside_braces' = FALSE
    /\ escape_next' = FALSE
    /\ UNCHANGED <<worldVars, mainVars, rets, calls>>

\* main's Err arm logging the error and going on with the next line
ReturnErr_Continues(e) ==
    /\ rets' = Append(rets, e)
    /\ stdout' = stdout \o ESC_reset
    /\ errlog' = Append(errlog, [line |-> index + 1, kind |-> e.kind, arg |-> e.arg])
    /\ index' = index + 1
    /\ pc' = "loop"
    /\ UNCHANGED <<worldVars, exitStatus, mainOutput>>

\* main's Err arm without its reset_term_styles()
ReturnErr_NoReset(e) ==
    /\ rets' = Append(rets, e)
    /\ UNCHANGED stdout
    /\ errlog' = Append(errlog, [line |-> index + 1, kind |-> e.kind, arg |-> e.arg])
    /\ exitStatus' = 1
    /\ pc' = "exited"
    /\ UNCHANGED <<worldVars, index, mainOutput>>

\* parse_line returns Err(e); main's Err arm: reset_term_styles(), error!(),
\* process::exit(1)
ReturnErr(e) ==
    /\ rets' = Append(rets, e)
    /\ stdout' = stdout \o ESC_reset
    /\ errlog' = Append(errlog, [line |-> index + 1, kind |-> e.kind, arg |-> e.arg])
    /\ exitStatus' = 1
    /\ pc' = "exited"
    /\ UNCHANGED <<worldVars, index, mainOutput>>

\* `if escape_next` without its special case for '{', '}' and '\\'
EscapedChar_KeepsBackslash ==
    /\ AtChar
    /\ escape_next
    /\ buffer' = buffer \o <<"\\", char>>
    /\ escape_next' = FALSE
    /\ pos' = pos + 1
    /\ UNCHANGED <<worldVars, mainVars, pc, output, inside_braces, rets, calls>>

\* `if escape_next { ... continue; }`
EscapedChar ==
    /\ AtChar
    /\ escape_next
    /\ buffer' = IF char \in {"{", "}", "\\"} THEN Append(buffer, char)
                  ELSE buffer \o <<"\\", char>>
    /\ escape_next' = FALSE
    /\ pos' = pos + 1
    /\ UNCHANGED <<worldVars, mainVars, pc, output, inside_braces, rets, calls>>

\* the arm '\\' writing nothing outside braces
Backslash_DroppedOutside ==
    /\ AtChar
    /\ ~escape_next
    /\ char = "\\"
    /\ IF inside_braces THEN escape_next' = TRUE ELSE UNCHANGED escape_next
    /\ pos' = pos + 1
    /\ UNCHANGED <<worldVars, mainVars, pc, output, buffer, inside_braces, rets, calls>>

\* the arm '\\' starting an escape outside braces too
Backslash_EscapesOutside ==
    /\ AtChar
    /\ ~escape_next
    /\ char = "\\"
    /\ escape_next' = TRUE
    /\ pos' = pos + 1
    /\ UNCHANGED <<worldVars, mainVars, pc, output, buffer, inside_braces, rets, calls>>

\* the arm '\\'
Backslash ==
    /\ AtChar
    /\ ~escape_next
    /\ char = "\\"
    /\ IF inside_braces
       THEN escape_next' = TRUE /\ UNCHANGED output
       ELSE output' = Append(output, "\\") /\ UNCHANGED escape_next
    /\ pos' = pos + 1
    /\ UNCHANGED <<worldVars, mainVars, pc, buffer, inside_braces, rets, calls>>

\* the arm '{' without its `if inside_braces` check
OpenBrace_NoNestedCheck ==
    /\ AtChar
    /\ ~escape_next
    /\ char = "{"
    /\ inside_braces' = TRUE
    /\ buffer' = <<>>
    /\ pos' = pos + 1
    /\ UNCHANGED <<worldVars, mainVars, pc, rets, output, escape_next, calls>>

\* the arm '{'
OpenBrace ==
    /\ AtChar
    /\ ~escape_next
    /\ char = "{"
    /\ IF inside_braces
       THEN /\ ReturnErr(Err("NestedBrace", <<>>))
            /\ UNCHANGED <<pos, buffer, inside_braces>>
       ELSE /\ inside_braces' = TRUE
            /\ buffer' = <<>>
            /\ pos' = pos + 1
            /\ UNCHANGED <<worldVars, mainVars, pc, rets>>
    /\ UNCHANGED <<output, escape_next, calls>>

\* the arm '}' going on with the line after a resolver error
CloseBrace_SkipsFailed ==
    /\ AtChar
    /\ ~escape_next
    /\ char = "}"
    /\ IF ~inside_braces
       THEN /\ ReturnErr(Err("UnmatchedBrace", <<>>))
            /\ UNCHANGED <<pos, output, inside_braces, calls>>
       ELSE /\ inside_braces' = FALSE
            /\ \E c \in Resolve(buffer) :
                /\ calls' = Append(calls, [body |-> buffer, fn |-> c.fn, arg |-> c.arg,
                                            line |-> index + 1, ret |-> c.ret,
                                            proc |-> c.proc])
                /\ output' = output \o c.ret.val
                /\ pos' = pos + 1
                /\ UNCHANGED <<worldVars, mainVars, pc, rets>>
    /\ UNCHANGED <<buffer, escape_next>>

\* the arm '}'
CloseBrace ==
    /\ AtChar
    /\ ~escape_next
    /\ char = "}"
    /\ IF ~inside_braces
       THEN /\ ReturnErr(Err("UnmatchedBrace", <<>>))
            /\ UNCHANGED <<pos, output, inside_braces, calls>>
       ELSE /\ inside_braces' = FALSE
            /\ \E c \in Resolve(buffer) :
                /\ calls' = Append(calls, [body |-> buffer, fn |-> c.fn, arg |-> c.arg,
                                            line |-> index + 1, ret |-> c.ret,
                                            proc |-> c.proc])
                /\ IF c.ret.ok
                   THEN /\ output' = output \o c.ret.val
                        /\ pos' = pos + 1
                        /\ UNCHANGED <<worldVars, mainVars, pc, rets>>
                   ELSE /\ ReturnErr(c.ret)
                        /\ UNCHANGED <<pos, output>>
    /\ UNCHANGED <<buffer, escape_next>>

\* the arm `_`
OtherChar ==
    /\ AtChar
    /\ ~escape_next
    /\ char \notin {"\\", "{", "}"}
    /\ IF inside_braces
       THEN buffer' = Append(buffer, char) /\ UNCHANGED output
       ELSE output' = Append(output, char) /\ UNCHANGED buffer
    /\ pos' = pos + 1
    /\ UNCHANGED <<worldVars, mainVars, pc, inside_braces, escape_next, rets, calls>>

\* the end of parse_line returning the output without the newline
EndOfLine_NoNewline ==
    /\ pc = "parse"
    /\ pos > Len(line)
    /\ IF inside_braces
       THEN /\ ReturnErr(Err("UnclosedBrace", <<>>))
            /\ UNCHANGED output
       ELSE /\ UNCHANGED output
            /\ rets' = Append(rets, Ok(output))
            /\ mainOutput' = mainOutput \o output
            /\ index' = index + 1
            /\ pc' = "loop"
            /\ UNCHANGED <<worldVars, stdout, errlog, exitStatus>>
    /\ UNCHANGED <<pos, buffer, inside_braces, escape_next, calls>>

\* the end of parse_line without its `if inside_braces` check
EndOfLine_NoUnclosedCheck ==
    /\ pc = "parse"
    /\ pos > Len(line)
    /\ output' = Append(output, "\n")
    /\ rets' = Append(rets, Ok(output'))
    /\ mainOutput' = mainOutput \o output'
    /\ index' = index + 1
    /\ pc' = "loop"
    /\ UNCHANGED <<worldVars, stdout, errlog, exitStatus>>
    /\ UNCHANGED <<pos, buffer, inside_braces, escape_next, calls>>

\* after the loop: Err(UnclosedBrace), or push '\n' and return Ok(output),
\* which main's Ok arm appends to its output
EndOfLine ==
    /\ pc = "parse"
    /\ pos > Len(line)
    /\ IF inside_braces
       THEN /\ ReturnErr(Err("UnclosedBrace", <<>>))
            /\ UNCHANGED output
       ELSE /\ output' = Append(output, "\n")
            /\ rets' = Append(rets, Ok(output'))
            /\ mainOutput' = mainOutput \o output'
            /\ index' = index + 1
            /\ pc' = "loop"
            /\ UNCHANGED <<worldVars, stdout, errlog, exitStatus>>
    /\ UNCHANGED <<pos, buffer, inside_braces, escape_next, calls>>

\* main after the loop: print!("{}", output); reset_term_styles()
PrintOutput ==
    /\ pc = "loop"
    /\ index = Len(lines)
    /\ stdout' = stdout \o mainOutput \o ESC_reset
    /\ exitStatus' = 0
    /\ pc' = "done"
    /\ UNCHANGED <<worldVars, index, mainOutput, errlog, pos, buffer, output,
                   inside_braces, escape_next, rets, calls>>

Next ==
    \/ DumpConfig
    \/ PrintVersion
    \/ LoadConfig
    \/ CallParseLine
    \/ EscapedChar
    \/ Backslash
    \/ OpenBrace
    \/ CloseBrace
    \/ OtherChar
    \/ EndOfLine
    \/ PrintOutput

Spec == Init /\ [][Next]_vars

-----------------------------------------------------------------------------
(* The fact providers of fetch.rs, each called on its own *)

\* crate::ERROR_STR, which fetch.rs imports
ERROR_STR == <<"E", "r", "r", "o", "r">>

S_HOME == <<"H", "O", "M", "E">>
S_SHELL == <<"S", "H", "E", "L", "L">>
S_comma == <<",", " ">>
S_0_minutes == <<"0", " ", "m", "i", "n", "u", "t", "e", "s">>

\* usize/u64::to_string: the decimal digits, as u8::to_string
IntToString(n) == U8ToString(n)

\* the value of a string of decimal digits
RECURSIVE ParseNat(_, _)
ParseNat(s, acc) ==
    IF s = <<>> THEN acc ELSE ParseNat(Tail(s), acc * 10 + DigitVal(Head(s)))

AllDigits(s) == \A i \in 1..Len(s) : IsDigit(s[i])

\* str::rsplit('/').next(): what follows the last '/', the whole string if
\* there is none
RSplitFirst(s) ==
    LET slashes == {i \in 1..Len(s) : s[i] = "/"}
    IN  IF slashes = {} THEN s
        ELSE SubSeq(s, (CHOOSE i \in slashes : \A j \in slashes : j <= i) + 1, Len(s))

get_shell ==
    LET x == EnvVar(S_SHELL) IN IF x.ok THEN RSplitFirst(x.val) ELSE NOT_AVAILABLE_STR

\* <f64 as FromStr>::from_str on the texts of the model (no exponent): an
\* optional sign, then "nan", "inf", or decimal digits with an optional
\* fraction.  `int` is the integer part of a finite value.
ParseF64(t) ==
    LET signed == t # <<>> /\ Head(t) \in {"+", "-"}
        neg == t # <<>> /\ Head(t) = "-"
        r == IF signed THEN Tail(t) ELSE t
        dots == {i \in 1..Len(r) : r[i] = "."}
        whole == IF dots = {} THEN r ELSE SubSeq(r, 1, (CHOOSE i \in dots : TRUE) - 1)
        frac == IF dots = {} THEN <<>> ELSE SubSeq(r, (CHOOSE i \in dots : TRUE) + 1, Len(r))
    IN  IF r = <<"n", "a", "n">> THEN [ok |-> TRUE, class |-> "nan", neg |-> neg, int |-> 0, zero |-> FALSE]
        ELSE IF r = <<"i", "n", "f">> THEN
            [ok |-> TRUE, class |-> "inf", neg |-> neg, int |-> 0, zero |-> FALSE]
        ELSE IF /\ Cardinality(dots) <= 1
                /\ AllDigits(whole) /\ AllDigits(frac)
                /\ Len(whole) + Len(frac) > 0
        THEN [ok |-> TRUE, class |-> "finite", neg |-> neg, int |-> ParseNat(whole, 0),
              zero |-> ParseNat(whole, 0) = 0 /\ ParseNat(frac, 0) = 0]
        ELSE [ok |-> FALSE, class |-> "", neg |-> FALSE, int |-> 0, zero |-> FALSE]

\* Duration::from_secs_f64 panics on a negative, a NaN or an infinite value
\* (the values of the model are far below u64::MAX seconds)
FromSecsPanics(x) == x.class # "finite" \/ (x.neg /\ ~x.zero)

\* format!("{} day{}", n, if n > 1 { "s" } else { "" }), likewise hour, minute
Plural(n, unit) == IntToString(n) \o <<" ">> \o unit \o (IF n > 1 THEN <<"s">> ELSE <<>>)

\* get_uptime from `let days` on, taking the hours of the whole duration
FormatUptime_HoursOfTotal(secs) ==
    LET days == secs \div 86400
        hours == secs \div 3600
        minutes == (secs % 3600) \div 60
        s1 == IF days > 0 THEN Plural(days, <<"d", "a", "y">>) ELSE <<>>
        s2 == IF hours > 0
              THEN s1 \o (IF s1 # <<>> THEN S_comma ELSE <<>>) \o Plural(hours, <<"h", "o", "u", "r">>)
              ELSE s1
        s3 == IF minutes > 0
              THEN s2 \o (IF s2 # <<>> THEN S_comma ELSE <<>>) \o Plural(minutes, <<"m", "i", "n", "u", "t", "e">>)
              ELSE s2
    IN  IF s3 = <<>> THEN S_0_minutes ELSE s3

\* get_uptime from `let days` on: uptime_duration.as_secs() to uptime_string
FormatUptime(secs) ==
    LET days == secs \div 86400
        hours == (secs % 86400) \div 3600
        minutes == (secs % 3600) \div 60
        s1 == IF days > 0 THEN Plural(days, <<"d", "a", "y">>) ELSE <<>>
        s2 == IF hours > 0
              THEN s1 \o (IF s1 # <<>> THEN S_comma ELSE <<>>) \o Plural(hours, <<"h", "o", "u", "r">>)
              ELSE s1
        s3 == IF minutes > 0
              THEN s2 \o (IF s2 # <<>> THEN S_comma ELSE <<>>) \o Plural(minutes, <<"m", "i", "n", "u", "t", "e">>)
              ELSE s2
    IN  IF s3 = <<>> THEN S_0_minutes ELSE s3

\* get_uptime: the String it returns, or the panic of Duration::from_secs_f64
get_uptime ==
    IF ~sys.procUptime.ok THEN [panicked |-> FALSE, val |-> NOT_AVAILABLE_STR]
    ELSE LET tokens == SplitWhitespace(sys.procUptime.val)
         IN  IF tokens = <<>> THEN [panicked |-> FALSE, val |-> NOT_AVAILABLE_STR]
             ELSE LET uptime_seconds == ParseF64(tokens[1])
                  IN  IF ~uptime_seconds.ok
                      THEN [panicked |-> FALSE, val |-> NOT_AVAILABLE_STR]
                      ELSE IF FromSecsPanics(uptime_seconds)
                      THEN [panicked |-> TRUE, val |-> <<>>]
                      ELSE [panicked |-> FALSE, val |-> FormatUptime(uptime_seconds.int)]

\* read_dir(..).map(|entries| entries.count()).unwrap_or(0); a directory is
\* the sequence of the extensions of its entries
DirCount(dir) == IF dir.ok THEN Len(dir.val) ELSE 0

\* the entries whose extension is "list"
ListCount(dir) ==
    IF dir.ok THEN Len(SelectSeq(dir.val, LAMBDA ext : ext = "list")) ELSE 0

pacman_count == DirCount(sys.pacman)
xbps_count == DirCount(sys.xbps)
apt_count == ListCount(sys.apt)
flatpak_count == DirCount(sys.flatpakSystem) + DirCount(sys.flatpakUser)

\* the closure of a nix-store thread:
\* .output().ok().and_then(|o| lines().count().into()).unwrap_or(0)
NixThread(out) == IF out.ok THEN Len(Lines(FromUtf8Lossy(out.val))) ELSE 0

\* Vec<String>::join
RECURSIVE Join(_, _)
Join(ss, sep) ==
    IF ss = <<>> THEN <<>>
    ELSE IF Len(ss) = 1 THEN ss[1]
    ELSE ss[1] \o sep \o Join(Tail(ss), sep)

\* format!("{} (pacman)", count)
Fmt(count, manager) == IntToString(count) \o <<" ", "(">> \o manager \o <<")">>

\* the end of get_pkgs pushing an entry for every manager, the absent too
PkgsOutput_KeepsZero(nix_count) ==
    Join(<<Fmt(pacman_count, <<"p", "a", "c", "m", "a", "n">>), Fmt(xbps_count, <<"x", "b", "p", "s">>), Fmt(apt_count, <<"a", "p", "t">>),
           Fmt(flatpak_count, <<"f", "l", "a", "t", "p", "a", "k">>), Fmt(nix_count, <<"n", "i", "x">>)>>, S_comma)

\* the end of get_pkgs: `let mut output = Vec::new()` to `output.join(", ")`
PkgsOutput(nix_count) ==
    LET entries ==
            (IF pacman_count # 0 THEN <<Fmt(pacman_count, <<"p", "a", "c", "m", "a", "n">>)>> ELSE <<>>)
            \o (IF xbps_count # 0 THEN <<Fmt(xbps_count, <<"x", "b", "p", "s">>)>> ELSE <<>>)
            \o (IF apt_count # 0 THEN <<Fmt(apt_count, <<"a", "p", "t">>)>> ELSE <<>>)
            \o (IF flatpak_count # 0 THEN <<Fmt(flatpak_count, <<"f", "l", "a", "t", "p", "a", "k">>)>> ELSE <<>>)
            \o (IF nix_count # 0 THEN <<Fmt(nix_count, <<"n", "i", "x">>)>> ELSE <<>>)
    IN  IF entries = <<>> THEN NOT_AVAILABLE_STR ELSE Join(entries, S_comma)

(* Inputs of the providers *)

\* the text of /proc/uptime after s seconds
UptimeText(s) == IntToString(s) \o <<".", "5", "0", " ", "9", ".", "9", "0", "\n">>

UptimeSeconds ==
    {d * 86400 + h * 3600 + m * 60 + x :
        d \in 0..MaxDays, h \in {0, 1, 3, 23}, m \in {0, 1, 59}, x \in {0, 59}}

\* /proc/uptime: unreadable, a number of seconds, or something else
UptimeFiles ==
    {Err("io", <<>>)}
    \cup {Ok(UptimeText(s)) : s \in UptimeSeconds}
    \cup {Ok(t) : t \in {<<>>, <<" ", "\n">>, <<"x", "\n">>, <<"-", "1", ".", "0", "0", " ", "2", ".", "0", "0", "\n">>, <<"n", "a", "n">>, <<"i", "n", "f">>, <<"-", "0", " ", "0", "\n">>, <<".", "5", "\n">>}}

\* a directory of n entries, every second one a ".list" file
Dir(n) == Ok([i \in 1..n |-> IF i % 2 = 1 THEN "list" ELSE "md5sums"])

Dirs == {Err("io", <<>>)} \cup {Dir(k * DirStep) : k \in 1..MaxCount}

\* what nix-store prints: n lines
NixOut(n) == Ok(Concat([i \in 1..n |-> <<"p", "\n">>]))

NixOuts == {Err("io", <<>>)} \cup {NixOut(n) : n \in 1..MaxCount}

FetchSysOk ==
    [username |-> Ok(<<"a", "l">>), hostname |-> Ok(<<"p", "c">>),
     distro |-> Ok(<<"A", "r", "c", "h">>),
     procVersion |-> Ok(<<"L", " ", "v", " ", "6", ".", "1", " ", "(", "x", ")", "\n">>),
     procUptime |-> Ok(UptimeText(0)),
     pacman |-> Err("io", <<>>), xbps |-> Err("io", <<>>), apt |-> Err("io", <<>>),
     flatpakSystem |-> Err("io", <<>>), flatpakUser |-> Err("io", <<>>),
     nixSystem |-> Err("io", <<>>), nixUser |-> Err("io", <<>>)]
FetchSysFail ==
    [FetchSysOk EXCEPT !.username = Err("io", <<>>), !.hostname = Err("io", <<>>),
                       !.distro = Err("io", <<>>), !.procVersion = Err("io", <<>>),
                       !.procUptime = Err("io", <<>>)]

EnvHome == (S_HOME :> <<"/", "h">>)
FetchEnvs ==
    {EnvEmpty, (S_SHELL :> <<"/", "b", "i", "n", "/", "z", "s", "h">>), (S_SHELL :> <<"s", "h">>), (S_SHELL :> <<>>),
     (S_SHELL :> <<"0xFF">>)}

Providers ==
    {"get_username", "get_hostname", "get_distro", "get_kernel", "get_uptime", "get_pkgs",
     "get_shell"}

FetchWorlds ==
    {[provider |-> p, env |-> e, sys |-> y] :
        p \in Providers \ {"get_uptime", "get_pkgs"}, e \in FetchEnvs,
        y \in {FetchSysOk, FetchSysFail}}
    \cup {[provider |-> "get_uptime", env |-> EnvEmpty,
           sys |-> [FetchSysOk EXCEPT !.procUptime = u]] : u \in UptimeFiles}
    \cup {[provider |-> "get_pkgs", env |-> EnvEmpty, sys |-> FetchSysOk],
          [provider |-> "get_pkgs", env |-> (S_HOME :> <<"0xFF">>), sys |-> FetchSysOk]}
    \cup {[provider |-> "get_pkgs", env |-> EnvHome,
           sys |-> [FetchSysOk EXCEPT !.pacman = a, !.xbps = b, !.apt = c,
                                      !.flatpakSystem = f, !.flatpakUser = g,
                                      !.nixSystem = n, !.nixUser = m]] :
        a \in Dirs \cup {Dir(0)}, b \in Dirs, c \in Dirs, f \in Dirs, g \in Dirs,
        n \in NixOuts, m \in NixOuts}

(* The calls *)

FetchInit ==
    /\ \E w \in FetchWorlds :
        /\ provider = w.provider
        /\ env = w.env
        /\ sys = w.sys
    /\ fpc = "call"
    /\ fret = <<>>
    /\ system_handle = NotSpawned
    /\ user_handle = NotSpawned
    /\ joined = <<>>
    /\ args = ArgsNone
    /\ config = <<>>
    /\ lines = <<>>
    /\ index = 0
    /\ mainOutput = <<>>
    /\ stdout = <<>>
    /\ errlog = <<>>
    /\ exitStatus = -1
    /\ pc = "fetch"
    /\ pos = 1
    /\ buffer = <<>>
    /\ output = <<>>
    /\ inside_braces = FALSE
    /\ escape_next = FALSE
    /\ rets = <<>>
    /\ calls = <<>>

\* the provider returns v
Return(v) ==
    /\ fret' = v
    /\ fpc' = "returned"
    /\ UNCHANGED <<rendererVars, env, sys, provider>>

GetUsername ==
    /\ provider = "get_username" /\ fpc = "call"
    /\ Return(get_username)
    /\ UNCHANGED <<system_handle, user_handle, joined>>

GetHostname ==
    /\ provider = "get_hostname" /\ fpc = "call"
    /\ Return(get_hostname)
    /\ UNCHANGED <<system_handle, user_handle, joined>>

GetDistro ==
    /\ provider = "get_distro" /\ fpc = "call"
    /\ Return(get_distro)
    /\ UNCHANGED <<system_handle, user_handle, joined>>

GetKernel ==
    /\ provider = "get_kernel" /\ fpc = "call"
    /\ Return(get_kernel)
    /\ UNCHANGED <<system_handle, user_handle, joined>>

GetShell ==
    /\ provider = "get_shell" /\ fpc = "call"
    /\ Return(get_shell)
    /\ UNCHANGED <<system_handle, user_handle, joined>>

GetUptime ==
    /\ provider = "get_uptime" /\ fpc = "call"
    /\ IF get_uptime.panicked
       THEN /\ fpc' = "panicked"
            /\ UNCHANGED <<rendererVars, env, sys, provider, fret>>
       ELSE Return(get_uptime.val)
    /\ UNCHANGED <<system_handle, user_handle, joined>>

\* get_pkgs up to its nix_count block: HOME, then the directories
GetPkgs ==
    /\ provider = "get_pkgs" /\ fpc = "call"
    /\ IF ~EnvVar(S_HOME).ok
       THEN Return(ERROR_STR)
       ELSE /\ fpc' = "nix"
            /\ UNCHANGED <<rendererVars, env, sys, provider, fret>>
    /\ UNCHANGED <<system_handle, user_handle, joined>>

\* `let system_handle = thread::spawn(..)`
SpawnSystem ==
    /\ fpc = "nix"
    /\ system_handle = NotSpawned
    /\ system_handle' = Running
    /\ UNCHANGED <<rendererVars, env, sys, provider, fpc, fret, user_handle, joined>>

\* `let user_handle = thread::spawn(..)`
SpawnUser ==
    /\ fpc = "nix"
    /\ system_handle # NotSpawned
    /\ user_handle = NotSpawned
    /\ user_handle' = Running
    /\ UNCHANGED <<rendererVars, env, sys, provider, fpc, fret, system_handle, joined>>

\* the first thread runs its closure to the end
SystemThread ==
    /\ system_handle = Running
    /\ system_handle' = Finished(NixThread(sys.nixSystem))
    /\ UNCHANGED <<rendererVars, env, sys, provider, fpc, fret, user_handle, joined>>

\* the second thread runs its closure to the end
UserThread ==
    /\ user_handle = Running
    /\ user_handle' = Finished(NixThread(sys.nixUser))
    /\ UNCHANGED <<rendererVars, env, sys, provider, fpc, fret, system_handle, joined>>

\* system_handle.join() taking whatever the thread has so far
JoinSystem_NoWait ==
    /\ fpc = "nix"
    /\ user_handle # NotSpawned
    /\ joined = <<>>
    /\ joined' = <<system_handle.value>>
    /\ UNCHANGED <<rendererVars, env, sys, provider, fpc, fret, system_handle, user_handle>>

\* `system_handle.join().unwrap()`: blocks until the thread has finished
JoinSystem ==
    /\ fpc = "nix"
    /\ user_handle # NotSpawned
    /\ joined = <<>>
    /\ system_handle.state = "finished"
    /\ joined' = <<system_handle.value>>
    /\ UNCHANGED <<rendererVars, env, sys, provider, fpc, fret, system_handle, user_handle>>

\* `user_handle.join().unwrap()`
JoinUser ==
    /\ fpc = "nix"
    /\ Len(joined) = 1
    /\ user_handle.state = "finished"
    /\ joined' = Append(joined, user_handle.value)
    /\ UNCHANGED <<rendererVars, env, sys, provider, fpc, fret, system_handle, user_handle>>

\* the sum of the two joins, then the end of get_pkgs
PkgsReturn ==
    /\ fpc = "nix"
    /\ Len(joined) = 2
    /\ Return(PkgsOutput(joined[1] + joined[2]))
    /\ UNCHANGED <<system_handle, user_handle, joined>>

FetchNext ==
    \/ GetUsername
    \/ GetHostname
    \/ GetDistro
    \/ GetKernel
    \/ GetShell
    \/ GetUptime
    \/ GetPkgs
    \/ SpawnSystem
    \/ SpawnUser
    \/ SystemThread
    \/ UserThread
    \/ JoinSystem
    \/ JoinUser
    \/ PkgsReturn

FetchSpec == FetchInit /\ [][FetchNext]_vars

-----------------------------------------------------------------------------
(* Braces: nesting, unmatched, unclosed *)

\* C1 as stated: every "{" that parse_line reads while inside_braces is true
\* makes the line fail with NestedBrace.
C1_EveryBraceInsideFails ==
    [][(AtChar /\ char = "{" /\ inside_braces)
        => (pc' = "exited" /\ Last(rets').kind = "NestedBrace")]_vars

\* C1, amended: a "{" read while inside_braces is true makes the line fail
\* with NestedBrace unless it is escaped (escape_next is set); an escaped "{"
\* is appended to the placeholder body and the placeholder stays open.
C1_UnescapedBraceInsideFails ==
    [][(AtChar /\ char = "{" /\ inside_braces)
        => IF escape_next
           THEN pc' = "parse" /\ inside_braces' /\ buffer' = Append(buffer, "{")
                /\ rets' = rets
           ELSE pc' = "exited" /\ rets' = Append(rets, Err("NestedBrace", <<>>))
                /\ exitStatus' = 1]_vars

C1_Witness ==
    /\ pc = "exited"
    /\ Last(rets).kind = "NestedBrace"
    /\ line[pos] = "{"
    /\ inside_braces
    /\ ~escape_next

\* C2: a "}" read while inside_braces is false makes the line fail with
\* UnmatchedBrace, whatever precedes it on the line, a backslash included.
C2_UnmatchedBraceFails ==
    [][(AtChar /\ char = "}" /\ ~inside_braces)
        => (pc' = "exited" /\ rets' = Append(rets, Err("UnmatchedBrace", <<>>))
            /\ exitStatus' = 1)]_vars

C2_Witness ==
    /\ pc = "exited"
    /\ Last(rets).kind = "UnmatchedBrace"
    /\ pos > 1
    /\ line[pos - 1] = "\\"
    /\ line[pos] = "}"

\* C3: parse_line returns Ok only after the last character with inside_braces
\* false; with the last character consumed and inside_braces true (a pending
\* escape included) it returns Err(UnclosedBrace) and no output: nothing of
\* the line reaches main's output or the output stream.
C3_UnclosedBraceFails ==
    [][/\ (Len(rets') > Len(rets) /\ Last(rets').ok)
            => (pc = "parse" /\ pos > Len(line) /\ ~inside_braces)
       /\ (pc = "parse" /\ pos > Len(line) /\ inside_braces)
            => /\ rets' = Append(rets, Err("UnclosedBrace", <<>>))
               /\ pc' = "exited"
               /\ mainOutput' = mainOutput
               /\ stdout' = stdout \o ESC_reset]_vars

C3_Witness ==
    /\ pc = "exited"
    /\ Last(rets).kind = "UnclosedBrace"
    /\ pos > Len(line)
    /\ inside_braces
    /\ escape_next

-----------------------------------------------------------------------------
(* What a line renders to *)

\* the resolver calls made for the k-th line, in order
CallsOf(k) == SelectSeq(calls, LAMBDA c : c.line = k)

\* the number of backslashes directly before position p of s, at positions
\* after `open`
RECURSIVE BackslashRun(_, _, _)
BackslashRun(s, open, p) ==
    IF p - 1 > open /\ s[p - 1] = "\\" THEN 1 + BackslashRun(s, open, p - 1) ELSE 0

\* position p of a placeholder opened at `open` is escaped: an odd number of
\* backslashes stands directly before it
EscapedAt(s, open, p) == BackslashRun(s, open, p) % 2 = 1

\* the body a placeholder's text stands for: "\{", "\}" and "\\" give the
\* second character, any other pair is kept
RECURSIVE Unescape(_)
Unescape(raw) ==
    IF raw = <<>> THEN <<>>
    ELSE IF Head(raw) = "\\" /\ Len(raw) >= 2 THEN
        (IF raw[2] \in {"{", "}", "\\"} THEN <<raw[2]>> ELSE <<"\\", raw[2]>>)
            \o Unescape(From(raw, 2))
    ELSE <<Head(raw)>> \o Unescape(Tail(raw))

Lit(c) == [kind |-> "lit", text |-> <<c>>]
Placeholder(b) == [kind |-> "placeholder", text |-> b]
Malformed == [kind |-> "malformed", text |-> <<>>]

\* a line as literal characters and placeholders; a placeholder runs from a
\* "{" outside any placeholder to the next "}" that is not escaped, and holds
\* no "{" that is not escaped
RECURSIVE Items(_)
Items(s) ==
    IF s = <<>> THEN <<>>
    ELSE IF Head(s) = "}" THEN <<Malformed>>
    ELSE IF Head(s) = "{" THEN
        LET closing == {j \in 2..Len(s) : s[j] = "}" /\ ~EscapedAt(s, 1, j)}
        IN  IF closing = {} THEN <<Malformed>>
            ELSE LET j == CHOOSE x \in closing : \A y \in closing : x <= y
                 IN  IF \E q \in 2..(j - 1) : s[q] = "{" /\ ~EscapedAt(s, 1, q)
                     THEN <<Malformed>>
                     ELSE <<Placeholder(Unescape(SubSeq(s, 2, j - 1)))>> \o Items(From(s, j))
    ELSE <<Lit(Head(s))>> \o Items(Tail(s))

\* the braces that are not escaped are balanced and not nested
WellFormed(s) == \A i \in 1..Len(Items(s)) : Items(s)[i].kind # "malformed"

\* the braces of the line, escaped or not, are balanced and not nested
RECURSIVE RawDepthOk(_, _)
RawDepthOk(s, depth) ==
    IF s = <<>> THEN depth = 0
    ELSE IF Head(s) = "{" THEN depth = 0 /\ RawDepthOk(Tail(s), 1)
    ELSE IF Head(s) = "}" THEN depth = 1 /\ RawDepthOk(Tail(s), 0)
    ELSE RawDepthOk(Tail(s), depth)

RawBalanced(s) == RawDepthOk(s, 0)

\* the items with the j-th placeholder replaced by the j-th value
RECURSIVE Substitute(_, _)
Substitute(items, vals) ==
    IF items = <<>> THEN <<>>
    ELSE IF Head(items).kind = "placeholder"
        THEN Head(vals) \o Substitute(Tail(items), Tail(vals))
        ELSE Head(items).text \o Substitute(Tail(items), vals)

PlaceholdersOf(s) == SelectSeq(Items(s), LAMBDA it : it.kind = "placeholder")

AllResolved(k) == \A i \in 1..Len(CallsOf(k)) : CallsOf(k)[i].ret.ok

\* C4 as stated: every finished line whose braces are balanced and not
\* nested, and whose placeholders all resolved, was rendered successfully.
C4_BalancedLineSucceeds ==
    \A k \in 1..Len(rets) : (RawBalanced(lines[k]) /\ AllResolved(k)) => rets[k].ok

\* C4, amended: for every line whose braces that are not escaped (a brace
\* inside a placeholder directly after an escaping backslash is escaped) are
\* balanced and not nested, and whose placeholders all resolved, parse_line
\* returns Ok of the literal text outside the placeholders, in order, with
\* each placeholder replaced by the value the resolver returned for its body,
\* and a newline after it.
C4_WellFormedLineRenders ==
    \A k \in 1..Len(rets) :
        (WellFormed(lines[k]) /\ AllResolved(k)) =>
            LET phs == PlaceholdersOf(lines[k])
                cs == CallsOf(k)
            IN  /\ Len(cs) = Len(phs)
                /\ \A j \in 1..Len(phs) : cs[j].body = phs[j].text
                /\ rets[k] = Ok(Substitute(Items(lines[k]),
                                           [j \in 1..Len(cs) |-> cs[j].ret.val])
                                \o <<"\n">>)

C4_Witness ==
    /\ Len(rets) >= 1
    /\ rets[1].ok
    /\ Len(PlaceholdersOf(lines[1])) >= 2
    /\ \E i \in 1..Len(lines[1]) : EscapedAt(lines[1], 1, i) /\ lines[1][i] = "}"
    /\ Len(CallsOf(1)) >= 2
    /\ CallsOf(1)[2].ret.val # <<>>

\* the line holds no "{" and no "}"
NoBraces(s) == \A i \in 1..Len(s) : s[i] \notin {"{", "}"}

\* C5: a line with no "{" and no "}" is rendered, without any resolver call,
\* to itself and one newline, backslashes kept; a template of such lines is
\* printed as its lines, each followed by one newline (and then the style
\* reset that ends every run).
C5_PlainLinesVerbatim ==
    /\ \A k \in 1..Len(rets) :
        NoBraces(lines[k]) => (rets[k] = Ok(lines[k] \o <<"\n">>) /\ CallsOf(k) = <<>>)
    /\ (pc = "parse" /\ NoBraces(line)) =>
            (output = SubSeq(line, 1, pos - 1) /\ ~escape_next /\ ~inside_braces)
    /\ (pc \in {"done", "exited"} /\ \A k \in 1..Len(lines) : NoBraces(lines[k])) =>
            (pc = "done" /\ calls = <<>> /\ stdout = JoinLines(lines) \o ESC_reset)

C5_Witness ==
    /\ pc = "done"
    /\ Len(lines) >= 2
    /\ \A k \in 1..Len(lines) : NoBraces(lines[k])
    /\ \E i \in 1..Len(lines[1]) : lines[1][i] = "\\"
    /\ stdout = JoinLines(lines) \o ESC_reset

-----------------------------------------------------------------------------
(* main: the first error ends the run *)

\* C6: when parse_line fails on line k, main reports line number k, exits
\* with status 1, has called parse_line and the resolvers for no line after
\* k, and writes none of the lines rendered so far to the output stream; no
\* step follows the exit.
C6_AbortAtFirstError ==
    /\ [](/\ \A j \in 1..Len(rets) : ~rets[j].ok => (pc = "exited" /\ j = Len(rets))
          /\ pc = "exited" =>
                LET k == Len(rets)
                IN  /\ k = index + 1
                    /\ ~rets[k].ok
                    /\ errlog = <<[line |-> k, kind |-> rets[k].kind, arg |-> rets[k].arg]>>
                    /\ exitStatus = 1
                    /\ \A i \in 1..Len(calls) : calls[i].line <= k
                    /\ mainOutput = Concat([j \in 1..(k - 1) |-> rets[j].val])
                    /\ stdout = ESC_reset)
    /\ [][pc # "exited"]_vars

C6_Witness ==
    /\ pc = "exited"
    /\ Len(rets) >= 2
    /\ Len(lines) > Len(rets)
    /\ mainOutput # <<>>
    /\ errlog[1].line = 2

-----------------------------------------------------------------------------
(* The resolvers *)

\* C7 as stated: the first character of the body selects the resolver and is
\* cut off: "$name" and "@name" look up name, "#command" hands command to
\* the command interpreter.
C7_HashSigilCutOff ==
    \A i \in 1..Len(calls) :
        LET c == calls[i]
        IN  /\ StartsWith(c.body, <<"$">>) => (c.fn = "get_env" /\ c.arg = From(c.body, 1))
            /\ StartsWith(c.body, <<"@">>) =>
                    (c.fn = "replace_builtin_var" /\ c.arg = From(c.body, 1))
            /\ StartsWith(c.body, <<"#">>) => (c.fn = "run_sh" /\ c.arg = From(c.body, 1))

\* C7, amended: "$name" looks up name in the environment and "@name" among
\* the builtins; every other body, one that starts with "#" included, is
\* handed whole to the command interpreter, so "{echo hi}" with stdout
\* "hi\n" and empty stderr renders as "hi\n".
C7_DispatchOnFirstChar ==
    /\ \A i \in 1..Len(calls) :
        LET c == calls[i]
        IN  IF StartsWith(c.body, <<"$">>)
                THEN c.fn = "get_env" /\ c.arg = From(c.body, 1)
            ELSE IF StartsWith(c.body, <<"@">>)
                THEN c.fn = "replace_builtin_var" /\ c.arg = From(c.body, 1)
            ELSE c.fn = "run_sh" /\ c.arg = c.body
    /\ \A k \in 1..Len(rets) :
        (/\ lines[k] = <<"{">> \o S_echo_hi \o <<"}">>
         /\ CallsOf(k)[1].proc = Proc(S_hi_nl, <<>>)) => rets[k] = Ok(S_hi_nl)

C7_Witness ==
    /\ pc = "done"
    /\ \E i \in 1..Len(calls) :
        calls[i].body = S_hash_echo_hi /\ calls[i].fn = "run_sh"
            /\ calls[i].arg = S_hash_echo_hi
    /\ \E k \in 1..Len(rets) :
        lines[k] = <<"{">> \o S_echo_hi \o <<"}">> /\ rets[k] = Ok(S_hi_nl)

ShCalls == SelectSeq(calls, LAMBDA c : c.fn = "run_sh" /\ c.proc.spawned)

\* t is s without its trailing whitespace, and nothing else is removed
OnlyTrailingWhitespaceRemoved(s, t) ==
    /\ Len(t) <= Len(s)
    /\ t = SubSeq(s, 1, Len(t))
    /\ \A i \in (Len(t) + 1)..Len(s) : IsWhitespace(s[i])
    /\ t # <<>> => ~IsWhitespace(Last(t))

\* C8 as stated: a shell placeholder fails with CommandExecution when the
\* command's standard error is not empty, and otherwise succeeds with its
\* standard output less the trailing whitespace.
C8_AnyStderrFails ==
    \A i \in 1..Len(ShCalls) :
        LET c == ShCalls[i]
        IN  IF c.proc.stderr # <<>>
            THEN ~c.ret.ok /\ c.ret.kind = "CommandExecution"
            ELSE c.ret.ok
                 /\ OnlyTrailingWhitespaceRemoved(FromUtf8Lossy(c.proc.stdout), c.ret.val)

\* C8, amended: for every shell placeholder whose command ran: if its
\* standard error holds a character that is no whitespace, resolution fails
\* with CommandExecution carrying the standard error less its trailing
\* whitespace, and the standard output is discarded; otherwise (standard
\* error empty or all whitespace) it succeeds with the standard output from
\* which only trailing whitespace is removed.  Both are decoded as UTF-8,
\* invalid bytes replaced.
C8_StderrTextFails ==
    \A i \in 1..Len(ShCalls) :
        LET c == ShCalls[i]
            out == FromUtf8Lossy(c.proc.stdout)
            err == FromUtf8Lossy(c.proc.stderr)
        IN  IF \E n \in 1..Len(err) : ~IsWhitespace(err[n])
            THEN /\ ~c.ret.ok
                 /\ c.ret.kind = "CommandExecution"
                 /\ OnlyTrailingWhitespaceRemoved(err, c.ret.arg)
                 /\ c.ret.val = <<>>
                 /\ rets[c.line] = c.ret
                 /\ pc = "exited"
            ELSE /\ c.ret.ok
                 /\ OnlyTrailingWhitespaceRemoved(out, c.ret.val)

C8_Witness ==
    \E i \in 1..Len(ShCalls) :
        /\ ShCalls[i].proc.stderr = <<"\n">>
        /\ ShCalls[i].proc.stdout = <<" ", "o", " ">>
        /\ ShCalls[i].ret = Ok(<<" ", "o">>)

BuiltinCalls == SelectSeq(calls, LAMBDA c : c.fn = "replace_builtin_var")

FactNames == {S_username, S_hostname, S_distro, S_kernel, S_uptime, S_pkgs, S_shell}
StyleNames == {S_bold, S_italic, S_underline, S_reset}

\* C9: "@name" resolves, for each of username, hostname, distro, kernel,
\* uptime, pkgs and shell, to the string of its fact provider, for a named
\* style to its sequence of the style table, and fails with UnknownStyle
\* carrying the name for every other name that is no color form.
C9_BuiltinNames ==
    \A i \in 1..Len(BuiltinCalls) :
        LET c == BuiltinCalls[i]
        IN  /\ c.arg = S_username => c.ret = Ok(get_username)
            /\ c.arg = S_hostname => c.ret = Ok(get_hostname)
            /\ c.arg = S_distro => c.ret = Ok(get_distro)
            /\ c.arg = S_kernel => c.ret = Ok(get_kernel)
            /\ c.arg \in {S_uptime, S_pkgs, S_shell} => c.ret.ok
            /\ c.arg \in StyleNames => c.ret = Ok(BUILTIN_VARS[c.arg])
            /\ (c.arg \notin FactNames \cup StyleNames /\ ~StartsWith(c.arg, S_color))
                    => c.ret = Err("UnknownStyle", c.arg)

ColorCalls == SelectSeq(BuiltinCalls, LAMBDA c : StartsWith(c.arg, S_color))

DigitsOnly(t) == t # <<>> /\ \A i \in 1..Len(t) : IsDigit(t[i])

RECURSIVE DecimalValue(_)
DecimalValue(t) ==
    IF t = <<>> THEN 0
    ELSE 10 * DecimalValue(SubSeq(t, 1, Len(t) - 1)) + DigitVal(Last(t))

RECURSIVE NoLeadingZeros(_)
NoLeadingZeros(t) == IF Len(t) > 1 /\ Head(t) = "0" THEN NoLeadingZeros(Tail(t)) ELSE t

\* s without the whitespace before its first and after its last other character
Stripped(s) ==
    LET keep == {i \in 1..Len(s) : ~IsWhitespace(s[i])}
    IN  IF keep = {} THEN <<>>
        ELSE SubSeq(s, CHOOSE i \in keep : \A j \in keep : i <= j,
                       CHOOSE i \in keep : \A j \in keep : j <= i)

ForegroundColor(digits) == <<"ESC", "[", "3", "8", ";", "5", ";">> \o digits \o <<"m">>

Contains(s, sub) == \E i \in 0..(Len(s) - Len(sub)) : SubSeq(s, i + 1, i + Len(sub)) = sub

\* C10 as stated: "@color<suffix>" succeeds, with ESC[38;5;Nm, exactly when
\* the suffix is a number N of 0..255, and fails with UnknownColor for any
\* other suffix.
C10_ColorIffNumber ==
    \A i \in 1..Len(ColorCalls) :
        LET c == ColorCalls[i]
            suffix == From(c.arg, Len(S_color))
        IN  IF DigitsOnly(suffix) /\ DecimalValue(suffix) <= 255
            THEN c.ret = Ok(ForegroundColor(NoLeadingZeros(suffix)))
            ELSE ~c.ret.ok /\ c.ret.kind = "UnknownColor"

\* C10, amended: "@color<suffix>" succeeds exactly when the suffix, less the
\* whitespace around it, is an optional "+" and one or more decimal digits
\* of a value N <= 255, and yields ESC[38;5;Nm with N in decimal without
\* sign or leading zeros; for any other suffix it fails with UnknownColor
\* carrying the suffix less the whitespace around it.  The template with
\* "{}" is never emitted.
C10_ColorIffU8 ==
    \A i \in 1..Len(ColorCalls) :
        LET c == ColorCalls[i]
            suffix == Stripped(From(c.arg, Len(S_color)))
            digits == IF suffix # <<>> /\ Head(suffix) = "+" THEN Tail(suffix) ELSE suffix
        IN  /\ IF DigitsOnly(digits) /\ DecimalValue(digits) <= 255
               THEN c.ret = Ok(ForegroundColor(NoLeadingZeros(digits)))
               ELSE c.ret = Err("UnknownColor", suffix)
            /\ ~Contains(c.ret.val, S_braces)

C10_Witness ==
    /\ pc = "done"
    /\ Len(ColorCalls) = 1
    /\ ColorCalls[1].arg = S_color \o <<"2", "5", "5">>
    /\ rets[1] = Ok(<<"ESC", "[", "3", "8", ";", "5", ";", "2", "5", "5", "m", "\n">>)

-----------------------------------------------------------------------------
(* Empty bodies, environment variables, the newline, errors, escapes *)

EmptyCalls == SelectSeq(calls, LAMBDA c : c.body = <<>>)

\* C11 as stated: an empty placeholder body makes the line fail with the
\* unknown-variable error naming the empty string, and never yields a
\* successful substitution.
C11_EmptyBodyUnknown ==
    \A i \in 1..Len(EmptyCalls) :
        ~EmptyCalls[i].ret.ok /\ EmptyCalls[i].ret.kind = "UnknownStyle"
            /\ EmptyCalls[i].ret.arg = <<>>

\* C11, amended: an empty placeholder body is resolved by the same dispatch
\* and, matching no sigil, is handed to the command interpreter as the empty
\* command; when the interpreter runs and writes nothing, the substitution
\* succeeds and is empty.  It never fails with an unknown-variable error.
C11_EmptyBodyIsShellCommand ==
    \A i \in 1..Len(EmptyCalls) :
        LET c == EmptyCalls[i]
        IN  /\ c.fn = "run_sh"
            /\ c.arg = <<>>
            /\ c.ret.kind \notin {"UnknownStyle", "UnknownColor", "EnvVariable"}
            /\ c.proc = Proc(<<>>, <<>>) => c.ret = Ok(<<>>)

C11_Witness ==
    /\ Len(rets) >= 1
    /\ lines[1] = <<"{", "}">>
    /\ rets[1] = Ok(<<"\n">>)
    /\ EmptyCalls # <<>>

EnvCalls == SelectSeq(calls, LAMBDA c : c.fn = "get_env")

\* C12: "{$name}" is replaced by exactly the value of name when
\* name is set in the environment, the same string at every occurrence, and
\* fails with EnvVariable carrying name when name is unset.
C12_SetMeansValue ==
    \A i \in 1..Len(EnvCalls) :
        LET c == EnvCalls[i]
        IN  IF c.arg \in DOMAIN env
            THEN c.ret.ok /\ c.ret.val = env[c.arg]
            ELSE c.ret = Err("EnvVariable", c.arg)

\* the bytes are valid UTF-8
ValidUnicode(bytes) == \A i \in 1..Len(bytes) : bytes[i] # "0xFF"

\* What get_env does: "{$name}" is replaced by exactly the value of name
\* (nothing trimmed, no default) when name is set in the environment to valid
\* Unicode, the same string at every occurrence within one render; when name
\* is unset, or set to a value that is no valid Unicode, the line fails with
\* EnvVariable carrying name.
C12_UnicodeValueVerbatim ==
    /\ \A i \in 1..Len(EnvCalls) :
        LET c == EnvCalls[i]
        IN  /\ c.body = <<"$">> \o c.arg
            /\ IF c.arg \in DOMAIN env /\ ValidUnicode(env[c.arg])
               THEN c.ret.ok /\ c.ret.val = env[c.arg]
               ELSE c.ret = Err("EnvVariable", c.arg) /\ rets[c.line] = c.ret
    /\ \A i, j \in 1..Len(EnvCalls) :
        EnvCalls[i].arg = EnvCalls[j].arg => EnvCalls[i].ret = EnvCalls[j].ret

C12_Witness ==
    /\ Len(rets) >= 1
    /\ Len(EnvCalls) >= 2
    /\ EnvCalls[1].arg = <<"a">>
    /\ EnvCalls[2].arg = <<"a">>
    /\ rets[1] = Ok(<<" ", "v", " ", " ", "v", " ", "\n">>)

RECURSIVE Count(_, _)
Count(s, c) ==
    IF s = <<>> THEN 0 ELSE (IF Head(s) = c THEN 1 ELSE 0) + Count(Tail(s), c)

\* the newlines in the values the resolvers returned for line k
ResolvedNewlines(k) ==
    Count(Concat([j \in 1..Len(CallsOf(k)) |-> CallsOf(k)[j].ret.val]), "\n")

\* C13: a successful parse_line result ends with the one newline that the
\* renderer appends, once, after the last character of the line; the
\* renderer appends no other newline (any further newline of a result comes
\* out of a resolved value), and none on an error path.
C13_OneNewlinePerLine ==
    /\ [](\A k \in 1..Len(rets) :
            IF rets[k].ok
            THEN /\ rets[k].val # <<>>
                 /\ Last(rets[k].val) = "\n"
                 /\ Count(rets[k].val, "\n") = 1 + ResolvedNewlines(k)
            ELSE rets[k].val = <<>>)
    /\ [][output' # output =>
            \/ pc = "loop" /\ output' = <<>>
            \/ AtChar /\ char # "\n" /\ output' = Append(output, char)
            \/ AtChar /\ char = "}" /\ calls' # calls /\ Last(calls').ret.ok
                /\ output' = output \o Last(calls').ret.val
            \/ pc = "parse" /\ pos > Len(line) /\ output' = Append(output, "\n")
                /\ rets' = Append(rets, Ok(output')) /\ pc' = "loop"]_vars

C13_Witness ==
    /\ Len(rets) >= 1
    /\ rets[1].ok
    /\ Len(CallsOf(1)) >= 1
    /\ ResolvedNewlines(1) = 1
    /\ Count(rets[1].val, "\n") = 2

\* C18: a resolver failure ends the line at that placeholder: parse_line
\* returns the resolver's error at once, splices nothing, calls no further
\* resolver and reads no further character, so the error of a line is that
\* of its leftmost failing event.
C18_ResolverErrorEndsLine ==
    /\ [](\A i \in 1..Len(calls) :
            ~calls[i].ret.ok =>
                /\ i = Len(calls)
                /\ pc = "exited"
                /\ Last(rets) = calls[i].ret
                /\ calls[i].line = Len(rets)
                /\ errlog = <<[line |-> calls[i].line, kind |-> calls[i].ret.kind,
                               arg |-> calls[i].ret.arg]>>
                /\ line[pos] = "}")
    /\ [][(calls' # calls /\ ~Last(calls').ret.ok) =>
            (output' = output /\ pos' = pos /\ mainOutput' = mainOutput
                /\ pc' = "exited")]_vars
    /\ [][pc # "exited"]_vars

C18_Witness ==
    /\ pc = "exited"
    /\ line = <<"{", "$", "b", "}", "}">>
    /\ pos = 4
    /\ Last(rets) = Err("EnvVariable", <<"b">>)
    /\ errlog[1].kind = "EnvVariable"

\* C19: a character read inside braces after a backslash is appended to the
\* placeholder body, alone when it is "{", "}" or "\", after the backslash
\* otherwise; escape_next is cleared and inside_braces kept; nothing is
\* written to the output.  escape_next implies inside_braces in every state.
C19_EscapeInsideBraces ==
    /\ [](escape_next => inside_braces)
    /\ [][(AtChar /\ escape_next) =>
            /\ buffer' = IF char \in {"{", "}", "\\"}
                         THEN buffer \o <<char>>
                         ELSE buffer \o <<"\\">> \o <<char>>
            /\ ~escape_next'
            /\ inside_braces' = inside_braces
            /\ output' = output
            /\ pos' = pos + 1
            /\ pc' = "parse"
            /\ rets' = rets]_vars

C19_Witness ==
    /\ pc = "parse"
    /\ pos = 5
    /\ SubSeq(line, 1, 4) = <<"{", "\\", "a", "\\">>
    /\ buffer = <<"\\", "a">>
    /\ escape_next
    /\ inside_braces
    /\ output = <<>>

-----------------------------------------------------------------------------
(* The style reset at the end of a run *)

EndsWith(s, t) == Len(s) >= Len(t) /\ SubSeq(s, Len(s) - Len(t) + 1, Len(s)) = t

Terminated == pc \in {"done", "returned", "exited"}

\* C14 as stated: every terminating path of main has emitted the style reset
\* ESC[0m as the last thing written.
C14_EveryRunEndsWithReset ==
    Terminated => EndsWith(stdout, ESC_reset)

\* C14, amended: every run that renders the template ends by emitting the
\* style reset ESC[0m: after the rendered template on success, and alone on
\* the run that ends with a render error.  The runs that --dump-config or
\* --version end early print the builtin config or the version and no reset.
C14_RenderingRunEndsWithReset ==
    /\ pc = "done" => stdout = mainOutput \o ESC_reset /\ exitStatus = 0
    /\ pc = "exited" => stdout = ESC_reset /\ exitStatus = 1
    /\ pc = "returned" =>
        /\ args # ArgsNone
        /\ stdout = IF args.dump_config THEN BUILTIN_CONFIG ELSE S_version
        /\ ~EndsWith(stdout, ESC_reset)
    /\ ~Terminated => stdout = <<>>

C14_Witness ==
    /\ pc = "exited"
    /\ index = 1
    /\ mainOutput # <<>>
    /\ stdout = ESC_reset

-----------------------------------------------------------------------------
(* The fact providers *)

\* the provider could not get its fact
ProviderFails ==
    CASE provider = "get_username" -> ~sys.username.ok
      [] provider = "get_hostname" -> ~sys.hostname.ok
      [] provider = "get_distro" -> ~sys.distro.ok
      [] provider = "get_kernel" -> ~sys.procVersion.ok
      [] provider = "get_shell" -> ~EnvVar(S_SHELL).ok
      [] provider = "get_pkgs" -> ~EnvVar(S_HOME).ok
      [] provider = "get_uptime" ->
            \/ ~sys.procUptime.ok
            \/ SplitWhitespace(sys.procUptime.val) = <<>>
            \/ ~ParseF64(SplitWhitespace(sys.procUptime.val)[1]).ok
            \/ FromSecsPanics(ParseF64(SplitWhitespace(sys.procUptime.val)[1]))
      [] OTHER -> FALSE

\* C15: every fact provider (get_username, get_hostname, get_distro,
\* get_kernel, get_uptime, get_pkgs, get_shell) returns a sentinel string on
\* each of its failure paths; no provider failure aborts the program.
C15_ProvidersDegrade ==
    /\ fpc # "panicked"
    /\ (fpc = "returned" /\ ProviderFails) => fret \in {NOT_AVAILABLE_STR, ERROR_STR}

\* the whole seconds s for which /proc/uptime reads UptimeText(s)
UptimeInput == {s \in UptimeSeconds : sys.procUptime = Ok(UptimeText(s))}

\* "N unit", with the plural "s" unless N is one
Component(n, unit) ==
    IntToString(n) \o <<" ">> \o unit \o (IF n = 1 THEN <<>> ELSE <<"s">>)

\* the nonzero components among days, hours and minutes of s seconds
UptimeComponents(s) ==
    SelectSeq(<<[n |-> s \div 86400, unit |-> <<"d", "a", "y">>],
                [n |-> (s \div 3600) % 24, unit |-> <<"h", "o", "u", "r">>],
                [n |-> (s \div 60) % 60, unit |-> <<"m", "i", "n", "u", "t", "e">>]>>,
              LAMBDA c : c.n # 0)

\* C16: for an uptime of s whole seconds get_uptime returns the nonzero
\* components among days, hours and minutes, in that order, joined with ", "
\* (e.g. "2 days, 3 hours"); when all three are zero it returns "0 minutes",
\* never the empty string.
C16_UptimeComponents ==
    (provider = "get_uptime" /\ fpc \in {"returned", "panicked"}) =>
        \A s \in UptimeInput :
            LET cs == UptimeComponents(s)
            IN  /\ fpc = "returned"
                /\ fret # <<>>
                /\ fret = IF cs = <<>> THEN <<"0", " ", "m", "i", "n", "u", "t", "e", "s">>
                          ELSE Join([i \in 1..Len(cs) |-> Component(cs[i].n, cs[i].unit)],
                                    <<",", " ">>)

C16_Witness ==
    /\ provider = "get_uptime"
    /\ fpc = "returned"
    /\ UptimeInput # {}
    /\ fret = <<"2", " ", "d", "a", "y", "s", ",", " ", "3", " ", "h", "o", "u", "r", "s">>

\* the counts of the five package managers, in the order of the result
ManagerCounts ==
    <<[n |-> DirCount(sys.pacman), m |-> <<"p", "a", "c", "m", "a", "n">>],
      [n |-> DirCount(sys.xbps), m |-> <<"x", "b", "p", "s">>],
      [n |-> ListCount(sys.apt), m |-> <<"a", "p", "t">>],
      [n |-> DirCount(sys.flatpakSystem) + DirCount(sys.flatpakUser), m |-> <<"f", "l", "a", "t", "p", "a", "k">>],
      [n |-> NixThread(sys.nixSystem) + NixThread(sys.nixUser), m |-> <<"n", "i", "x">>]>>

\* "<count> (<manager>)" for exactly the managers of nonzero count, joined
ExpectedPkgs ==
    LET nz == SelectSeq(ManagerCounts, LAMBDA c : c.n # 0)
    IN  Join([i \in 1..Len(nz) |-> IntToString(nz[i].n) \o <<" ", "(">> \o nz[i].m \o <<")">>],
             <<",", " ">>)

PkgsReturned == provider = "get_pkgs" /\ fpc = "returned"

C20_NixCountIsSum ==
    /\ Len(joined) >= 1 =>
        system_handle = Finished(NixThread(sys.nixSystem)) /\ joined[1] = system_handle.value
    /\ Len(joined) = 2 =>
        user_handle = Finished(NixThread(sys.nixUser)) /\ joined[2] = user_handle.value
    /\ (PkgsReturned /\ EnvVar(S_HOME).ok) =>
        /\ Len(joined) = 2
        /\ fret = PkgsOutput(NixThread(sys.nixSystem) + NixThread(sys.nixUser))

C20_Witness ==
    /\ PkgsReturned
    /\ Len(joined) = 2
    /\ joined[1] > 0
    /\ joined[2] > 0
    /\ ManagerCounts[1].n = 0
    /\ fret # NOT_AVAILABLE_STR

====
